---- MODULE Spec2Model ----
(***************************************************************************)
(* The CPU emulator of src/components/Computer.tsx (class CPU): a          *)
(* byte-addressed memory, a register file, a pending-interrupt queue and   *)
(* the single-step operation tick().                                       *)
(*                                                                         *)
(* JavaScript values.  Registers are plain JS numbers (never masked), and  *)
(* a read of the Uint8Array outside its indices yields undefined.  The     *)
(* model keeps numbers as naturals and encodes the two non-numeric         *)
(* outcomes as negative integers (Undefined, NaN), so that every register  *)
(* is an integer.                                                          *)
(***************************************************************************)
EXTENDS Integers, Sequences, FiniteSets, TLC

VARIABLES
    memory,          \* this.memory: the Uint8Array (length, bytes, expando)
    registers,       \* this.registers: A, B, IR, MAR, MDR, PC, SP, IE
    halted,          \* this.halted
    interruptQueue,  \* this.interruptQueue
    logMessage,      \* this.logMessage (template and its formatted arguments)
    lastCall,        \* history: the public operation called last, with its argument
    inService,       \* history: an interrupt service began and no IRET ran since
    script,          \* the driver: the calls it makes in order (fixed at construction)
    pc               \* the driver: how many calls of its script it has made

vars == <<memory, registers, halted, interruptQueue, logMessage,
          lastCall, inService, script, pc>>

cpuVars == <<memory, registers, halted, interruptQueue, logMessage>>

-----------------------------------------------------------------------------
(* JavaScript value helpers                                                *)

Undefined == -1

NaN == -2

IsNumber(v) == v >= 0

\* Storing into a Uint8Array converts with ToUint8: modulo 256, NaN and
\* undefined become 0.
ToUint8(v) == IF IsNumber(v) THEN v % 256 ELSE 0

\* v++ on a register: undefined++ and NaN++ give NaN.
Increment(v) == IF IsNumber(v) THEN v + 1 ELSE NaN

\* a + b on registers: any undefined or NaN operand gives NaN.
Plus(a, b) == IF IsNumber(a) /\ IsNumber(b) THEN a + b ELSE NaN

HexDigits == <<"0", "1", "2", "3", "4", "5", "6", "7",
               "8", "9", "a", "b", "c", "d", "e", "f">>

RECURSIVE ToString16(_)
ToString16(n) ==
    IF n = NaN THEN "NaN"
    ELSE IF n < 16 THEN HexDigits[n + 1]
    ELSE ToString16(n \div 16) \o HexDigits[(n % 16) + 1]

\* n.toString(16).padStart(2, "0")
Hex2(n) == IF IsNumber(n) /\ n < 16 THEN "0" \o ToString16(n) ELSE ToString16(n)

RECURSIVE ToString10(_)
ToString10(n) ==
    IF n = Undefined THEN "undefined"
    ELSE IF n = NaN THEN "NaN"
    ELSE IF n < 10 THEN HexDigits[n + 1]
    ELSE ToString10(n \div 10) \o HexDigits[(n % 10) + 1]

-----------------------------------------------------------------------------
(* Program constants                                                       *)

InstructionSet ==
    [NOOP |-> 0, LOAD_A_VAL |-> 1, LOAD_B_VAL |-> 2, LOAD_A_MEM |-> 3,
     LOAD_B_MEM |-> 4, STORE_A |-> 5, STORE_B |-> 6, ADD |-> 7, HALT |-> 8,
     ENABLE_INTERRUPTS |-> 9, IRET |-> 10, JMP |-> 11, PUSH_A |-> 12,
     POP_A |-> 13, PUSH_B |-> 14, POP_B |-> 15]

\* InstructionNames[ir] || "DATA"
InstructionName(ir) ==
    IF ir \in 0..15
    THEN <<"NOOP", "LOAD_A_VAL", "LOAD_B_VAL", "LOAD_A_MEM", "LOAD_B_MEM",
           "STORE_A", "STORE_B", "ADD", "HALT", "ENABLE_INTERRUPTS", "IRET",
           "JMP", "PUSH_A", "POP_A", "PUSH_B", "POP_B">>[ir + 1]
    ELSE "DATA"

Interrupts == [TIMER |-> 1]

\* `${InterruptNames[interrupt]}`
InterruptName(interrupt) ==
    IF interrupt = Interrupts.TIMER THEN "TIMER" ELSE "undefined"

INTERRUPT_VECTOR_TABLE_START == 0

TIMER_ISR_ADDRESS_POINTER == INTERRUPT_VECTOR_TABLE_START + Interrupts.TIMER

-----------------------------------------------------------------------------
(* The Uint8Array this.memory: its length, its indexed bytes, and the one  *)
(* ordinary property the executor can create on it (memory[undefined],     *)
(* written by STORE_x whose operand byte lies past the end of memory).     *)
(* The bytes are kept as a sequence: the byte at index i is bytes[i + 1].  *)

NewMemory(memorySize) ==
    [length |-> memorySize,
     bytes |-> [i \in 1..memorySize |-> 0],
     undefined |-> Undefined]

\* this.memory[index]
MemRead(mem, index) ==
    IF index = Undefined THEN mem.undefined
    ELSE IF IsNumber(index) /\ index < mem.length THEN mem.bytes[index + 1]
    ELSE Undefined

\* this.memory[index] = value
MemWrite(mem, index, value) ==
    IF index = Undefined THEN [mem EXCEPT !.undefined = value]
    ELSE IF IsNumber(index) /\ index < mem.length
         THEN [mem EXCEPT !.bytes[index + 1] = ToUint8(value)]
    ELSE mem

-----------------------------------------------------------------------------
(* The methods of class CPU as functions from CPU state to CPU state.      *)
(* A CPU state is a record of the five fields of the class.                *)

CPU(memorySize) ==
    [memory |-> NewMemory(memorySize),
     registers |-> [A |-> 0, B |-> 0, IR |-> 0, MAR |-> 0, MDR |-> 0,
                    PC |-> 0, SP |-> memorySize - 1, IE |-> 0],
     halted |-> FALSE,
     interruptQueue |-> <<>>,
     logMessage |-> <<"In attesa di avvio...">>]

\* Mutant: an image that runs past the end of memory wraps around to address 0.
RECURSIVE WriteProgram_Wraps(_, _, _, _)
WriteProgram_Wraps(mem, program, startAddress, index) ==
    IF index > Len(program) THEN mem
    ELSE WriteProgram_Wraps(
             MemWrite(mem, (startAddress + (index - 1)) % mem.length, program[index]),
             program, startAddress, index + 1)

RECURSIVE WriteProgram(_, _, _, _)
WriteProgram(mem, program, startAddress, index) ==
    IF index > Len(program) THEN mem
    ELSE WriteProgram(
             IF startAddress + (index - 1) < mem.length
             THEN MemWrite(mem, startAddress + (index - 1), program[index])
             ELSE mem,
             program, startAddress, index + 1)

\* Mutant: loading an image restarts a halted CPU.
loadProgram_Restarts(s, program, startAddress) ==
    [s EXCEPT !.memory = WriteProgram(s.memory, program, startAddress, 1),
              !.registers.PC = startAddress,
              !.halted = FALSE,
              !.logMessage = <<"Programma caricato. Pronto per l'esecuzione.">>]

loadProgram(s, program, startAddress) ==
    [s EXCEPT !.memory = WriteProgram(s.memory, program, startAddress, 1),
              !.registers.PC = startAddress,
              !.logMessage = <<"Programma caricato. Pronto per l'esecuzione.">>]

Includes(queue, x) == \E i \in 1..Len(queue) : queue[i] = x

\* Mutant: the request is queued without looking for the code in the queue.
requestInterrupt_NoCheck(s, interrupt) ==
    [s EXCEPT !.interruptQueue = Append(s.interruptQueue, interrupt),
              !.logMessage = <<"Richiesta di Interrupt", InterruptName(interrupt),
                               "ricevuta.">>]

\* Mutant: the request is put at the front of the queue (unshift for push).
requestInterrupt_Unshift(s, interrupt) ==
    IF ~Includes(s.interruptQueue, interrupt)
    THEN [s EXCEPT !.interruptQueue = <<interrupt>> \o s.interruptQueue,
                   !.logMessage = <<"Richiesta di Interrupt", InterruptName(interrupt),
                                    "ricevuta.">>]
    ELSE s

\* Mutant: a request made while interrupts are disabled is dropped.
requestInterrupt_OnlyWhenEnabled(s, interrupt) ==
    IF s.registers.IE = 1 /\ ~Includes(s.interruptQueue, interrupt)
    THEN [s EXCEPT !.interruptQueue = Append(s.interruptQueue, interrupt),
                   !.logMessage = <<"Richiesta di Interrupt", InterruptName(interrupt),
                                    "ricevuta.">>]
    ELSE s

requestInterrupt(s, interrupt) ==
    IF ~Includes(s.interruptQueue, interrupt)
    THEN [s EXCEPT !.interruptQueue = Append(s.interruptQueue, interrupt),
                   !.logMessage = <<"Richiesta di Interrupt", InterruptName(interrupt),
                                    "ricevuta.">>]
    ELSE s

\* Mutant: the push decrements SP without the test SP > 0.
pushToStack_NoSaturation(s, value) ==
    [s EXCEPT !.memory = MemWrite(s.memory, s.registers.SP, value),
              !.registers.SP = s.registers.SP - 1]

\* Mutant: the push moves SP down first and writes at the new SP.
pushToStack_DecrementFirst(s, value) ==
    LET moved == IF s.registers.SP > 0
                 THEN [s EXCEPT !.registers.SP = s.registers.SP - 1]
                 ELSE s
    IN  [moved EXCEPT !.memory = MemWrite(moved.memory, moved.registers.SP, value)]

pushToStack(s, value) ==
    LET written == [s EXCEPT !.memory = MemWrite(s.memory, s.registers.SP, value)]
    IN  IF s.registers.SP > 0
        THEN [written EXCEPT !.registers.SP = s.registers.SP - 1]
        ELSE written

\* Mutant: the pop reads the cell at SP without moving SP up first.
popFromStack_NoIncrement(s) ==
    [state |-> s, value |-> MemRead(s.memory, s.registers.SP)]

\* popFromStack: the state after the call, and the value returned.
popFromStack(s) ==
    LET after == IF s.registers.SP < s.memory.length - 1
                 THEN [s EXCEPT !.registers.SP = s.registers.SP + 1]
                 ELSE s
    IN  [state |-> after, value |-> MemRead(after.memory, after.registers.SP)]

\* Interrupt code 0 is falsy: `if (!interruptType) return` leaves after the shift.
Falsy(interruptType) == interruptType = 0

\* Mutant: the service does not clear IE.
handleInterrupt_KeepsIE(s) ==
    LET interruptType == Head(s.interruptQueue)
        shifted == [s EXCEPT !.interruptQueue = Tail(s.interruptQueue)]
        pushed == pushToStack(shifted, shifted.registers.PC)
        isrAddress == MemRead(pushed.memory, TIMER_ISR_ADDRESS_POINTER)
        jumped == [pushed EXCEPT !.registers.PC = isrAddress]
    IN  IF Falsy(interruptType) THEN shifted
        ELSE IF isrAddress = Undefined THEN jumped
        ELSE [jumped EXCEPT !.logMessage =
                  <<"Interrupt", InterruptName(interruptType), Hex2(isrAddress)>>]

handleInterrupt(s) ==
    LET interruptType == Head(s.interruptQueue)
        shifted == [s EXCEPT !.interruptQueue = Tail(s.interruptQueue)]
        pushed == pushToStack([shifted EXCEPT !.registers.IE = 0],
                              shifted.registers.PC)
        isrAddressPointer == TIMER_ISR_ADDRESS_POINTER
        isrAddress == MemRead(pushed.memory, isrAddressPointer)
        jumped == [pushed EXCEPT !.registers.PC = isrAddress]
    IN  IF Falsy(interruptType) THEN shifted
        \* isrAddress.toString(16) throws a TypeError on undefined: the
        \* assignment to logMessage never happens.
        ELSE IF isrAddress = Undefined THEN jumped
        ELSE [jumped EXCEPT !.logMessage =
                  <<"Interrupt", InterruptName(interruptType), Hex2(isrAddress)>>]

\* this.registers.MAR.toString(16) throws a TypeError when MAR is undefined.
FetchThrows(s) == s.registers.PC = Undefined

\* Mutant: the fetch does not advance PC.
fetch_NoAdvance(s) ==
    LET mar == s.registers.PC
        ir == MemRead(s.memory, mar)
        fetched == [s EXCEPT !.registers.MAR = mar, !.registers.IR = ir]
    IN  IF FetchThrows(s) THEN fetched
        ELSE [fetched EXCEPT !.logMessage =
                  <<"FETCH", InstructionName(ir), Hex2(mar)>>]

fetch(s) ==
    LET mar == s.registers.PC
        ir == MemRead(s.memory, mar)
        fetched == [s EXCEPT !.registers.MAR = mar,
                             !.registers.IR = ir,
                             !.registers.PC = Increment(s.registers.PC)]
    IN  IF FetchThrows(s) THEN fetched
        ELSE [fetched EXCEPT !.logMessage =
                  <<"FETCH", InstructionName(ir), Hex2(mar)>>]

decodeAndExecute(s) ==
    LET instruction == s.registers.IR
        operand1 == MemRead(s.memory, s.registers.PC)
        next == Increment(s.registers.PC)
        I == InstructionSet
    IN  CASE instruction = I.LOAD_A_VAL ->
               [s EXCEPT !.registers.A = operand1, !.registers.PC = next]
          [] instruction = I.LOAD_B_VAL ->
               [s EXCEPT !.registers.B = operand1, !.registers.PC = next]
          [] instruction = I.LOAD_A_MEM ->
               [s EXCEPT !.registers.A = MemRead(s.memory, operand1),
                         !.registers.PC = next]
          [] instruction = I.LOAD_B_MEM ->
               [s EXCEPT !.registers.B = MemRead(s.memory, operand1),
                         !.registers.PC = next]
          [] instruction = I.STORE_A ->
               [s EXCEPT !.memory = MemWrite(s.memory, operand1, s.registers.A),
                         !.registers.PC = next]
          [] instruction = I.STORE_B ->
               [s EXCEPT !.memory = MemWrite(s.memory, operand1, s.registers.B),
                         !.registers.PC = next]
          [] instruction = I.ADD ->
               [s EXCEPT !.registers.A = Plus(s.registers.A, s.registers.B)]
          [] instruction = I.JMP ->
               [s EXCEPT !.registers.PC = operand1]
          [] instruction = I.ENABLE_INTERRUPTS ->
               [s EXCEPT !.registers.IE = 1,
                         !.logMessage = <<"Interrupt Abilitati.">>]
          [] instruction = I.IRET ->
               LET popped == popFromStack(s)
               IN  [popped.state EXCEPT
                        !.registers.PC = popped.value,
                        !.registers.IE = 1,
                        !.logMessage = <<"IRET", Hex2(popped.value)>>]
          [] instruction = I.PUSH_A -> pushToStack(s, s.registers.A)
          [] instruction = I.POP_A ->
               LET popped == popFromStack(s)
               IN  [popped.state EXCEPT !.registers.A = popped.value]
          [] instruction = I.PUSH_B -> pushToStack(s, s.registers.B)
          [] instruction = I.POP_B ->
               LET popped == popFromStack(s)
               IN  [popped.state EXCEPT !.registers.B = popped.value]
          [] instruction = I.HALT ->
               [s EXCEPT !.halted = TRUE,
                         !.logMessage = <<"HALT: Esecuzione terminata.">>]
          [] instruction = I.NOOP -> s
          [] OTHER ->
               [s EXCEPT !.logMessage =
                    <<"Istruzione sconosciuta", ToString10(instruction)>>]

\* The branch tick() takes.
TakesInterrupt(s) ==
    ~s.halted /\ s.registers.IE = 1 /\ Len(s.interruptQueue) > 0

\* Mutant: tick() without its early return on halted.
tick_NoHaltCheck(s) ==
    IF s.registers.IE = 1 /\ Len(s.interruptQueue) > 0 THEN handleInterrupt(s)
    ELSE IF FetchThrows(s) THEN fetch(s)
    ELSE decodeAndExecute(fetch(s))

\* Mutant: a fetched byte that is no opcode stops the CPU.
tick_UnknownHalts(s) ==
    IF s.halted THEN [s EXCEPT !.logMessage = <<"CPU in stato HALT.">>]
    ELSE IF s.registers.IE = 1 /\ Len(s.interruptQueue) > 0 THEN handleInterrupt(s)
    ELSE IF FetchThrows(s) THEN fetch(s)
    ELSE IF fetch(s).registers.IR \in 0..15 THEN decodeAndExecute(fetch(s))
    ELSE [decodeAndExecute(fetch(s)) EXCEPT !.halted = TRUE]

tick(s) ==
    IF s.halted THEN [s EXCEPT !.logMessage = <<"CPU in stato HALT.">>]
    ELSE IF s.registers.IE = 1 /\ Len(s.interruptQueue) > 0 THEN handleInterrupt(s)
    ELSE IF FetchThrows(s) THEN fetch(s)
    ELSE decodeAndExecute(fetch(s))

-----------------------------------------------------------------------------
(* The state machine                                                       *)

State ==
    [memory |-> memory, registers |-> registers, halted |-> halted,
     interruptQueue |-> interruptQueue, logMessage |-> logMessage]

Becomes(s) ==
    /\ memory' = s.memory
    /\ registers' = s.registers
    /\ halted' = s.halted
    /\ interruptQueue' = s.interruptQueue
    /\ logMessage' = s.logMessage

\* The opcode a fetch-execute tick fetches and executes from s (Undefined
\* when the tick does something else).
Executes(s) ==
    IF s.halted \/ TakesInterrupt(s) \/ FetchThrows(s) THEN Undefined
    ELSE MemRead(s.memory, s.registers.PC)

\* tick() begins the service of an interrupt (the handler passes its early return).
BeginsService(s) == TakesInterrupt(s) /\ ~Falsy(Head(s.interruptQueue))

\* The opcodes followed by an operand byte, which decodeAndExecute reads at PC.
TwoByteOpcodes ==
    {InstructionSet.LOAD_A_VAL, InstructionSet.LOAD_B_VAL,
     InstructionSet.LOAD_A_MEM, InstructionSet.LOAD_B_MEM,
     InstructionSet.STORE_A, InstructionSet.STORE_B, InstructionSet.JMP}

\* The indices at which a tick() from s reads this.memory: the vector entry
\* (service), or the fetch at PC, the operand at the advanced PC, the
\* target of LOAD_x_MEM and the cell a pop reads.
ReadAddresses(s) ==
    IF s.halted THEN {}
    ELSE IF TakesInterrupt(s)
         THEN IF Falsy(Head(s.interruptQueue)) THEN {} ELSE {TIMER_ISR_ADDRESS_POINTER}
    ELSE LET fetched == fetch(s)
             ir == fetched.registers.IR
             operandAddress == fetched.registers.PC
             I == InstructionSet
         IN  {s.registers.PC}
               \cup (IF ~FetchThrows(s) /\ ir \in TwoByteOpcodes
                     THEN {operandAddress} ELSE {})
               \cup (IF ~FetchThrows(s) /\ ir \in {I.LOAD_A_MEM, I.LOAD_B_MEM}
                     THEN {MemRead(fetched.memory, operandAddress)} ELSE {})
               \cup (IF ~FetchThrows(s) /\ ir \in {I.POP_A, I.POP_B, I.IRET}
                     THEN {popFromStack(fetched).state.registers.SP} ELSE {})

\* Number of loadProgram calls made back to back, this one included.
BackToBack == IF lastCall[1] = "loadProgram" THEN lastCall[3] + 1 ELSE 1

DoLoad(program, startAddress) ==
    /\ Becomes(loadProgram(State, program, startAddress))
    /\ lastCall' = <<"loadProgram", startAddress, BackToBack>>
    /\ UNCHANGED inService

DoRequest(interrupt) ==
    /\ Becomes(requestInterrupt(State, interrupt))
    /\ lastCall' = <<"requestInterrupt", interrupt, 0>>
    /\ UNCHANGED inService

DoTick ==
    /\ Becomes(tick(State))
    /\ lastCall' = <<"tick", 0, 0>>
    /\ inService' = IF BeginsService(State) THEN TRUE
                    ELSE IF Executes(State) = InstructionSet.IRET THEN FALSE
                    ELSE inService

InitCPU(memorySize, calls) ==
    /\ memory = CPU(memorySize).memory
    /\ registers = CPU(memorySize).registers
    /\ halted = CPU(memorySize).halted
    /\ interruptQueue = CPU(memorySize).interruptQueue
    /\ logMessage = CPU(memorySize).logMessage
    /\ lastCall = <<"constructor", memorySize, 0>>
    /\ inService = FALSE
    /\ script = calls
    /\ pc = 0

\* The driver's next scripted call, and the step that makes it.
NextCall == IF pc < Len(script) THEN script[pc + 1] ELSE <<"none", <<>>, 0>>

Advance == pc' = pc + 1 /\ UNCHANGED script

LoadCall(program, startAddress) == <<"loadProgram", program, startAddress>>

TickCall == <<"tick", <<>>, 0>>

RequestCall(interrupt) == <<"requestInterrupt", <<>>, interrupt>>

-----------------------------------------------------------------------------
(* Spec: a CPU of a small capacity driven freely.  The driver loads the    *)
(* images of one load script, in order, at any moments it likes, and calls *)
(* tick() and requestInterrupt() in any interleaving.                      *)

MaxMemorySize == 8

MemorySizes == {1, 2, MaxMemorySize}

InterruptCodes == {0, Interrupts.TIMER, 2}

\* tick() is not called any more once a register has run past these.
MaxPC == 10

MaxAcc == 600

LoadScripts ==
    LET I == InstructionSet
    IN  { \* a vector table, then a main loop with its service routine (IRET)
          <<LoadCall(<<0, 6, 4>>, 0),
            LoadCall(<<I.ENABLE_INTERRUPTS, I.NOOP, I.JMP, 3, I.IRET>>, 2)>>,
          \* a service routine that enables interrupts itself
          <<LoadCall(<<0, 5>>, 0),
            LoadCall(<<I.ENABLE_INTERRUPTS, I.JMP, 3, I.ENABLE_INTERRUPTS, I.IRET>>, 2)>>,
          \* store and halt
          <<LoadCall(<<I.LOAD_A_VAL, 255, I.STORE_A, 6, I.HALT>>, 0)>>,
          \* arithmetic past 8 bits, the stack, a store whose operand is past the end
          <<LoadCall(<<I.LOAD_A_VAL, 255, I.LOAD_B_VAL, 255, I.ADD, I.PUSH_A,
                       I.POP_B, I.STORE_B>>, 0)>>,
          \* loads from memory, one of them past the end, a sum with
          \* undefined, a jump whose operand is past the end
          <<LoadCall(<<I.LOAD_B_MEM, 7, I.PUSH_B, I.POP_A, I.LOAD_A_MEM, 9,
                       I.ADD, I.JMP>>, 0)>>,
          \* a halt with interrupts enabled; a vector that points past the end
          <<LoadCall(<<I.ENABLE_INTERRUPTS, I.HALT>>, 0)>>,
          \* an image that does not fit
          <<LoadCall(<<I.IRET, I.POP_A, I.PUSH_A, 16>>, 6)>>,
          \* a halt, and a second image loaded over it
          <<LoadCall(<<I.HALT>>, 0), LoadCall(<<I.NOOP, I.ENABLE_INTERRUPTS>>, 0)>> }

Init ==
    \E memorySize \in MemorySizes, calls \in LoadScripts :
        InitCPU(memorySize, calls)

WithinBounds ==
    /\ registers.PC <= MaxPC
    /\ registers.A <= MaxAcc
    /\ registers.B <= MaxAcc

LoadProgram ==
    /\ NextCall[1] = "loadProgram"
    /\ DoLoad(NextCall[2], NextCall[3])
    /\ Advance

RequestInterrupt ==
    /\ \E interrupt \in InterruptCodes : DoRequest(interrupt)
    /\ UNCHANGED <<script, pc>>

Tick ==
    /\ WithinBounds
    /\ DoTick
    /\ UNCHANGED <<script, pc>>

Next == LoadProgram \/ RequestInterrupt \/ Tick

Spec == Init /\ [][Next]_vars

-----------------------------------------------------------------------------
(* Properties of the free-running CPU (Spec)                               *)

\* The step is a call of tick().
TickStep == lastCall'[1] = "tick"

Max(a, b) == IF a >= b THEN a ELSE b

\* C1: once halted is true, a tick() leaves all registers, every memory
\* cell, the interrupt queue and the halted flag unchanged; since halted
\* stays true, this holds for any number of further ticks.
C1_HaltedTickChangesNothing ==
    [][(halted /\ TickStep) =>
           UNCHANGED <<registers, memory, interruptQueue, halted>>]_vars

\* C1 witness: tick() has been called on a halted CPU.
C1_Witness ==
    halted /\ lastCall[1] = "tick" /\ logMessage = <<"CPU in stato HALT.">>

\* C2 as stated: from the tick that begins an interrupt service until a
\* tick executes IRET, IE is 0 (so no second interrupt can be serviced),
\* whatever the service routine contains.
C2_Original == inService => registers.IE = 0

\* C2 amended: IE goes from 0 to 1 only in a tick that executes IRET or
\* ENABLE_INTERRUPTS, and a tick takes a code off the queue only when IE
\* is 1, clearing IE as it begins the service: after a service begins, IE
\* stays 0 and no second interrupt is serviced until a tick executes IRET
\* or ENABLE_INTERRUPTS.
C2_NoNestingUntilIretOrEnable ==
    [][/\ (registers.IE = 0 /\ registers'.IE = 1) =>
              /\ TickStep
              /\ Executes(State) \in {InstructionSet.IRET,
                                      InstructionSet.ENABLE_INTERRUPTS}
       /\ Len(interruptQueue') < Len(interruptQueue) =>
              /\ TickStep
              /\ registers.IE = 1
              /\ Falsy(Head(interruptQueue)) \/ registers'.IE = 0]_vars

\* C2 witness: inside a service routine a tick executed an instruction that
\* is neither IRET nor ENABLE_INTERRUPTS, and IE is still 0 with a request
\* pending.
C2_Witness ==
    /\ inService
    /\ registers.IE = 0
    /\ lastCall[1] = "tick"
    /\ logMessage[1] = "FETCH"
    /\ Len(interruptQueue) > 0

\* C3 as stated: a tick() on a running CPU with IE = 1 and a non-empty
\* queue removes exactly the head of the queue, sets IE to 0, stores the
\* pre-tick PC at Memory[pre-tick SP], decrements SP (saturating at 0) and
\* fetches nothing (IR, A and B unchanged), whatever the code queued.
C3_ServiceForEveryCode ==
    [][(TickStep /\ ~halted /\ registers.IE = 1 /\ Len(interruptQueue) > 0) =>
           /\ interruptQueue' = Tail(interruptQueue)
           /\ registers'.IE = 0
           /\ MemRead(memory', registers.SP) = registers.PC
           /\ registers'.SP = Max(registers.SP - 1, 0)
           /\ registers'.IR = registers.IR
           /\ registers'.A = registers.A
           /\ registers'.B = registers.B]_vars

\* C4 as stated: a tick() that services code k sets PC to the byte stored
\* at vector-table address 0 + k, for every code k that can be queued (and
\* whose vector-table entry lies in memory).
C4_VectorIndexedByCode ==
    [][(TickStep /\ BeginsService(State)
            /\ INTERRUPT_VECTOR_TABLE_START + Head(interruptQueue) < memory.length) =>
           registers'.PC =
               MemRead(memory', INTERRUPT_VECTOR_TABLE_START + Head(interruptQueue))]_vars

\* Position of x in queue q (0 when absent).
Position(q, x) ==
    IF Includes(q, x) THEN CHOOSE i \in 1..Len(q) : q[i] = x ELSE 0

NoDuplicates(q) == \A i, j \in 1..Len(q) : q[i] = q[j] => i = j

\* C6: the interrupt queue holds each code at most once in every reachable
\* state, and requestInterrupt(code) for a code already queued leaves the
\* queue unchanged.
C6_AtMostOneEntryPerCode ==
    /\ [](NoDuplicates(interruptQueue))
    /\ [][\A code \in InterruptCodes :
             (lastCall' = <<"requestInterrupt", code, 0>>
                 /\ Includes(interruptQueue, code)) =>
                 interruptQueue' = interruptQueue]_vars

\* C6 witness: TIMER was requested again while queued ahead of code 2; the
\* queue still holds it once.
C6_Witness ==
    /\ lastCall = <<"requestInterrupt", Interrupts.TIMER, 0>>
    /\ interruptQueue = <<Interrupts.TIMER, 2>>

\* The stack operation a tick performs from the current state.
Pushes ==
    \/ BeginsService(State)
    \/ Executes(State) \in {InstructionSet.PUSH_A, InstructionSet.PUSH_B}

Pops ==
    Executes(State) \in {InstructionSet.POP_A, InstructionSet.POP_B,
                         InstructionSet.IRET}

\* C7: 0 <= SP <= C-1 in every reachable state; a push moves SP down by
\* one and leaves it at 0 when it is 0, a pop moves it up by one and leaves
\* it at C-1 when it is C-1, and nothing else changes SP.
C7_StackPointerInRange ==
    /\ [](0 <= registers.SP /\ registers.SP <= memory.length - 1)
    /\ [][/\ (TickStep /\ Pushes) => registers'.SP = Max(registers.SP - 1, 0)
          /\ (TickStep /\ Pops) =>
                 registers'.SP = IF registers.SP = memory.length - 1
                                 THEN registers.SP ELSE registers.SP + 1
          /\ ~(TickStep /\ (Pushes \/ Pops)) => registers'.SP = registers.SP]_vars

\* C7 witness: on a CPU of capacity 1 (SP = 0 = C-1 throughout) a tick has
\* executed a push, and on a CPU of capacity 8 an IRET was executed with
\* no service begun before it, so its pop found SP at C-1.
C7_Witness ==
    \/ /\ memory.length = 1
       /\ lastCall[1] = "tick"
       /\ logMessage = <<"FETCH", "PUSH_B", "00">>
       /\ registers.SP = 0
    \/ /\ memory.length = MaxMemorySize
       /\ logMessage[1] = "IRET"
       /\ registers.SP = memory.length - 1

\* C10: loadProgram(bytes, s) writes bytes[i] at s+i for exactly the i with
\* s+i < C, sets PC to s and leaves the other cells, the other registers,
\* the interrupt queue and halted unchanged; after back-to-back loads PC
\* is the start address of the last one.
C10_LoadProgramFrame ==
    /\ [][(lastCall'[1] = "loadProgram") =>
            LET bytes == NextCall[2]
                s == NextCall[3]
            IN  /\ memory'.length = memory.length
                /\ \A a \in 0..(memory.length - 1) :
                       MemRead(memory', a) =
                           IF a >= s /\ a - s < Len(bytes)
                           THEN bytes[(a - s) + 1] ELSE MemRead(memory, a)
                /\ memory'.undefined = memory.undefined
                /\ registers' = [registers EXCEPT !.PC = s]
                /\ interruptQueue' = interruptQueue
                /\ halted' = halted]_vars
    /\ [](lastCall[1] = "loadProgram" => registers.PC = lastCall[2])

\* C10 witness: two loads were made back to back, the second at address 2
\* of a 2-byte memory, where none of its bytes fits.
C10_Witness ==
    /\ lastCall = <<"loadProgram", 2, 2>>
    /\ memory.length = 2

\* The values the executor can push: the contents of A, B (PUSH_A, PUSH_B)
\* and PC (the interrupt service).
Pushable == {registers.A, registers.B, registers.PC}

\* C11 as stated: in every state with SP > 0, for every value x the
\* executor can push (here: every such x that is a number), push(x)
\* immediately followed by pop() returns exactly x and leaves SP at its
\* pre-push value.
C11_PushPopInverse ==
    registers.SP > 0 =>
        \A x \in Pushable :
            IsNumber(x) =>
                LET popped == popFromStack(pushToStack(State, x))
                IN  /\ popped.value = x
                    /\ popped.state.registers.SP = registers.SP

\* The value a tick pushes from the current state.
PushedValue ==
    IF BeginsService(State) THEN registers.PC
    ELSE IF Executes(State) = InstructionSet.PUSH_A THEN registers.A
    ELSE registers.B

\* C12 as stated: after a push that does not saturate (pre-push SP > 0),
\* Memory[SP] holds the value just pushed.
C12_Original ==
    [][(TickStep /\ Pushes /\ registers.SP > 0) =>
           MemRead(memory', registers'.SP) = PushedValue]_vars

\* C12 amended: a push that does not saturate writes at the pre-push SP
\* and then moves SP down by one, so after it the value just pushed,
\* reduced modulo 256 as every byte stored, is at Memory[SP + 1]; SP is the
\* address of the next free cell.
C12_PushedByteAboveSP ==
    [][(TickStep /\ Pushes /\ registers.SP > 0) =>
           /\ registers'.SP + 1 = registers.SP
           /\ MemRead(memory', registers'.SP + 1) = ToUint8(PushedValue)]_vars

\* C12 witness: PUSH_A has pushed A = 510 on a CPU of capacity 8: SP went
\* from 7 to 6 and Memory[7] holds 254.
C12_Witness ==
    /\ lastCall[1] = "tick"
    /\ logMessage[1] = "FETCH" /\ logMessage[2] = "PUSH_A"
    /\ registers.A = 510
    /\ registers.SP = 6
    /\ MemRead(memory, 7) = 254

\* C14 as stated: registers A and B hold 8-bit values (0..255) in every
\* reachable state, also after ADD.  (Stated for the numbers they hold: a
\* register holds no number only after a read past the end of memory.)
C14_AccumulatorsAre8Bit ==
    /\ IsNumber(registers.A) => registers.A \in 0..255
    /\ IsNumber(registers.B) => registers.B \in 0..255

\* C17: halted goes from false to true only in a tick that fetches and
\* executes HALT, and never goes from true to false, whatever is called
\* (tick, requestInterrupt, loadProgram).
C17_HaltOnlyByHaltAndForGood ==
    [][/\ (~halted /\ halted') =>
              (TickStep /\ Executes(State) = InstructionSet.HALT)
       /\ halted => halted']_vars

\* C17 witness: loadProgram was called on a halted CPU, which is still halted.
C17_Witness ==
    /\ halted
    /\ lastCall[1] = "loadProgram"
    /\ MemRead(memory, 0) = InstructionSet.NOOP

\* C18: requestInterrupt(code) leaves all registers, every memory cell and
\* halted unchanged and touches the queue only by appending code, which is
\* queued after the call whatever IE and halted are; and a tick made with
\* IE = 0 takes nothing off the queue, so the request waits until IE is 1.
C18_RequestOnlyQueues ==
    [][/\ \A code \in InterruptCodes :
              lastCall' = <<"requestInterrupt", code, 0>> =>
                  /\ registers' = registers
                  /\ memory' = memory
                  /\ halted' = halted
                  /\ Includes(interruptQueue', code)
                  /\ interruptQueue' \in {interruptQueue, Append(interruptQueue, code)}
       /\ (TickStep /\ registers.IE = 0) => interruptQueue' = interruptQueue]_vars

\* C18 witness: interrupts were never enabled, a request is pending, and a
\* fetch-execute tick has left it in the queue.
C18_Witness ==
    /\ registers.IE = 0
    /\ ~inService
    /\ ~halted
    /\ lastCall[1] = "tick"
    /\ logMessage[1] = "FETCH"
    /\ Len(interruptQueue) > 0

-----------------------------------------------------------------------------
(* Scripted scenarios on a CPU of the default capacity: the driver makes   *)
(* the calls of its script one after the other.                            *)

DefaultMemorySize == 256

ScriptedTick ==
    /\ NextCall[1] = "tick"
    /\ DoTick
    /\ Advance

ScriptedRequest ==
    /\ NextCall[1] = "requestInterrupt"
    /\ DoRequest(NextCall[3])
    /\ Advance

(* Store and halt: [LOAD_A_VAL, v, STORE_A, a, HALT] loaded at 0, then     *)
(* five ticks.                                                             *)

StoreHaltProgram(v, a) ==
    <<InstructionSet.LOAD_A_VAL, v, InstructionSet.STORE_A, a, InstructionSet.HALT>>

StoreHaltScripts ==
    { <<LoadCall(StoreHaltProgram(v, a), 0),
        TickCall, TickCall, TickCall, TickCall, TickCall>> :
          v \in 0..255, a \in 5..255 }

InitStoreHalt ==
    \E calls \in StoreHaltScripts : InitCPU(DefaultMemorySize, calls)

NextStoreHalt == LoadProgram \/ ScriptedTick

SpecStoreHalt == InitStoreHalt /\ [][NextStoreHalt]_vars

\* C8: with [LOAD_A_VAL, v, STORE_A, a, HALT] loaded at 0 on a fresh
\* CPU(256), after four ticks Memory[a] = v and halted is true, and the
\* fifth tick changes nothing of the CPU, for every byte v and every a in
\* 5..255.
C8_StoreThenHalt ==
    /\ [](pc = 5 => /\ MemRead(memory, script[1][2][4]) = script[1][2][2]
                    /\ halted = TRUE)
    /\ [][(pc = 5 /\ pc' = 6) => UNCHANGED cpuVars]_vars

\* C8 witness: the fifth tick has been made in the scenario that stores
\* 255 at address 255.
C8_Witness ==
    /\ pc = 6
    /\ lastCall[1] = "tick"
    /\ halted
    /\ script[1][2] = StoreHaltProgram(255, 255)
    /\ MemRead(memory, 255) = 255

(* Interrupt and return: a routine that is a single IRET at address isr,   *)
(* then at 0 ENABLE_INTERRUPTS followed by NOOPs up to the vector-table    *)
(* entry of code K, which holds isr; then tick, requestInterrupt(K), tick, *)
(* tick.                                                                   *)

MaxScenarioCode == 3

IsrAddresses == 16..250

BootImage(K, isr) ==
    <<InstructionSet.ENABLE_INTERRUPTS>>
        \o [i \in 1..K |-> IF i = K THEN isr ELSE InstructionSet.NOOP]

InterruptReturnScripts ==
    { <<LoadCall(<<InstructionSet.IRET>>, isr), LoadCall(BootImage(K, isr), 0),
        TickCall, RequestCall(K), TickCall, TickCall>> :
          K \in 1..MaxScenarioCode, isr \in IsrAddresses }

InitInterruptReturn ==
    \E calls \in InterruptReturnScripts : InitCPU(DefaultMemorySize, calls)

NextInterruptReturn == LoadProgram \/ ScriptedTick \/ ScriptedRequest

SpecInterruptReturn == InitInterruptReturn /\ [][NextInterruptReturn]_vars

\* The round trip of C9 in the scenario: the state after the servicing
\* tick, and the state after the IRET tick.
RoundTrip ==
    LET isr == script[1][3]
    IN  /\ pc = 5 => /\ registers.PC = isr
                     /\ registers.IE = 0
                     /\ MemRead(memory, 255) = 1
                     /\ registers.SP = 254
                     /\ registers.A = 0 /\ registers.B = 0
        /\ pc = 6 => /\ registers.PC = 1
                     /\ registers.IE = 1
                     /\ registers.SP = 255
                     /\ registers.A = 0 /\ registers.B = 0

\* C9 as stated: with SP = 255, IE = 1 and a pending code K whose vector
\* entry points to an IRET byte, one tick sets PC to the vector value, IE
\* to 0, Memory[255] to the pre-interrupt PC and SP to 254, and the next
\* tick (IRET) restores PC, sets IE to 1 and SP to 255, A and B unchanged,
\* for whatever code K.
C9_ServiceIretRoundTrip == RoundTrip

\* The same round trip for the TIMER code alone.
C9_TimerRoundTrip == script[4][3] = Interrupts.TIMER => RoundTrip

(* One instruction anywhere in memory: on a fresh CPU(256) the image       *)
(* [op, v] (or [op] alone for a byte that is no opcode) is loaded at       *)
(* address p, for every byte op and every address p, then two ticks.       *)

OperandBytes == {0, 128, 255}

InstructionImages ==
    {<<op, v>> : op \in 0..15, v \in OperandBytes} \cup {<<op>> : op \in 16..255}

InstructionScripts ==
    { <<LoadCall(image, p), TickCall, TickCall>> :
          image \in InstructionImages, p \in 0..(DefaultMemorySize - 1) }

InitInstruction ==
    \E calls \in InstructionScripts : InitCPU(DefaultMemorySize, calls)

NextInstruction == LoadProgram \/ ScriptedTick

SpecInstruction == InitInstruction /\ [][NextInstruction]_vars

\* C13 as stated: on a CPU(256), for any program image, every memory read
\* a tick() performs (the fetch at PC, the operand read at PC, the target
\* of LOAD_x_MEM, the vector entry, the pop) is at an address in 0..255.
C13_ReadsInRange ==
    [][TickStep =>
           \A address \in ReadAddresses(State) :
               address \in 0..(DefaultMemorySize - 1)]_vars

\* The image of the scenario and the address it is loaded at.
Image == script[1][2]

ImageAddress == script[1][3]

\* The step is the first tick of the scenario: it fetches the image's first byte.
FirstTick == pc = 1 /\ TickStep

\* A fetch-execute tick at address p advances PC by the length of the
\* instruction at p (IRET and JMP set PC themselves).
AdvancesByLength ==
    (TickStep /\ Executes(State) # Undefined) =>
        LET p == registers.PC
            op == Executes(State)
        IN  /\ fetch(State).registers.PC = p + 1
            /\ (op \notin TwoByteOpcodes /\ op # InstructionSet.IRET) =>
                   registers'.PC = p + 1
            /\ (op \in TwoByteOpcodes /\ op # InstructionSet.JMP) =>
                   registers'.PC = p + 2

C16_UnknownOpcodeOnlyAdvances ==
    [][(TickStep /\ Executes(State) \in 16..255) =>
           /\ registers' = [registers EXCEPT !.PC = registers.PC + 1,
                                             !.IR = Executes(State),
                                             !.MAR = registers.PC]
           /\ memory' = memory
           /\ interruptQueue' = interruptQueue
           /\ halted' = FALSE /\ halted = FALSE]_vars

\* C16 witness: the byte 255 was fetched at address 255 and reported unknown.
C16_Witness ==
    /\ pc = 2
    /\ Image = <<255>> /\ ImageAddress = 255
    /\ logMessage = <<"Istruzione sconosciuta", "255">>
    /\ registers.PC = 256
    /\ ~halted

-----------------------------------------------------------------------------
(* The sample program: the image createAndLoadCPU() builds (vector table,  *)
(* main loop, service routine, data), driven by the interval timer's ticks *)
(* and by TIMER requests made at any moments.                              *)

MAIN_PROGRAM_START == 32

ISR_START == 128

COUNTER_ADDRESS == 240

VALUE_1_ADDR == 241

RESULT_ADDRESS == 244

INCREMENT_VALUE_ADDR == 245

RESULT_ADDRESS_2 == 246

INCREMENT_VALUE_2_ADDR == 247

ivt == <<0, ISR_START>>

mainProgram ==
    LET I == InstructionSet
    IN  <<I.LOAD_A_VAL, 0, I.STORE_A, RESULT_ADDRESS,
          I.LOAD_A_VAL, 0, I.STORE_A, RESULT_ADDRESS_2,
          I.ENABLE_INTERRUPTS,
          I.LOAD_A_MEM, RESULT_ADDRESS, I.LOAD_B_MEM, INCREMENT_VALUE_ADDR,
          I.ADD, I.STORE_A, RESULT_ADDRESS,
          I.LOAD_A_MEM, RESULT_ADDRESS_2, I.LOAD_B_MEM, INCREMENT_VALUE_2_ADDR,
          I.ADD, I.STORE_A, RESULT_ADDRESS_2,
          I.JMP, MAIN_PROGRAM_START + 9>>

isr ==
    LET I == InstructionSet
    IN  <<I.PUSH_A, I.PUSH_B,
          I.LOAD_A_MEM, COUNTER_ADDRESS, I.LOAD_B_MEM, VALUE_1_ADDR,
          I.ADD, I.STORE_A, COUNTER_ADDRESS,
          I.POP_B, I.POP_A,
          I.IRET>>

\* Object.entries(data): the integer keys in ascending order.
data ==
    <<<<COUNTER_ADDRESS, 0>>, <<VALUE_1_ADDR, 1>>, <<RESULT_ADDRESS, 0>>,
      <<INCREMENT_VALUE_ADDR, 1>>, <<RESULT_ADDRESS_2, 0>>,
      <<INCREMENT_VALUE_2_ADDR, 2>>>>

\* for (const [addr, val] of Object.entries(data)) cpu.memory[parseInt(addr)] = val
RECURSIVE WriteData(_, _, _)
WriteData(mem, entries, index) ==
    IF index > Len(entries) THEN mem
    ELSE WriteData(MemWrite(mem, entries[index][1], entries[index][2]),
                   entries, index + 1)

createAndLoadCPU ==
    LET cpu == CPU(DefaultMemorySize)
        withIvt == loadProgram(cpu, ivt, INTERRUPT_VECTOR_TABLE_START)
        withMain == loadProgram(withIvt, mainProgram, MAIN_PROGRAM_START)
        withIsr == loadProgram(withMain, isr, ISR_START)
    IN  [withIsr EXCEPT !.memory = WriteData(withIsr.memory, data, 1),
                        !.registers.PC = MAIN_PROGRAM_START]

\* The interval timer calls tick() n times with no request in between
\* (computed in two halves; on a halted CPU any number of ticks is as one).
RECURSIVE RunTicks(_, _)
RunTicks(s, n) ==
    IF n = 0 THEN s
    ELSE IF n = 1 THEN tick(s)
    ELSE LET half == RunTicks(s, n \div 2)
         IN  IF half.halted THEN tick(half)
             ELSE RunTicks(half, n - (n \div 2))

\* Ticks observed at most, beyond those that finish a pending or running service.
MaxSampleTicks == 16

\* The sample CPU is observed from its creation, and from the start of the
\* 128th turn of the main loop (5 ticks of setup, 9 ticks a turn), in
\* which the second counter passes from 254 to 256.
WarmUps == {0, 5 + 9 * 127}

InitSample ==
    \E warmUp \in WarmUps :
        /\ memory = RunTicks(createAndLoadCPU, warmUp).memory
        /\ registers = RunTicks(createAndLoadCPU, warmUp).registers
        /\ halted = RunTicks(createAndLoadCPU, warmUp).halted
        /\ interruptQueue = RunTicks(createAndLoadCPU, warmUp).interruptQueue
        /\ logMessage = RunTicks(createAndLoadCPU, warmUp).logMessage
        /\ lastCall = <<"constructor", DefaultMemorySize, 0>>
        /\ inService = FALSE
        /\ script = [i \in 1..MaxSampleTicks |-> TickCall]
        /\ pc = 0

\* A request is pending or a service routine is running.
Busy == Len(interruptQueue) > 0 \/ inService

SampleTick ==
    /\ pc < Len(script) \/ Busy
    /\ DoTick
    /\ pc' = IF pc < Len(script) THEN pc + 1 ELSE pc
    /\ UNCHANGED script

SampleRequest ==
    /\ pc < Len(script)
    /\ DoRequest(Interrupts.TIMER)
    /\ UNCHANGED <<script, pc>>

NextSample == SampleTick \/ SampleRequest

\* The interval timer keeps calling tick().
SpecSample == InitSample /\ [][NextSample]_vars /\ WF_vars(SampleTick)

\* The addresses of the main program.
MainProgramAddresses ==
    MAIN_PROGRAM_START..(MAIN_PROGRAM_START + Len(mainProgram) - 1)

\* The last call was the tick that began the service of a request.
ServiceBegun == lastCall[1] = "tick" /\ logMessage[1] = "Interrupt"

\* The last call was a tick that executed IRET and gave control back to
\* the main program with interrupts enabled.
Returned ==
    /\ lastCall[1] = "tick"
    /\ logMessage[1] = "IRET"
    /\ ~inService
    /\ registers.IE = 1
    /\ registers.PC \in MainProgramAddresses

\* C19: with the sample image, under any interleaving of TIMER requests and
\* ticks, the CPU never halts, every byte a tick fetches is an opcode, and
\* (ticks being issued for ever) every pending TIMER request is eventually
\* serviced and every service is followed by an IRET that returns to the
\* main program.
C19_SampleServesEveryRequest ==
    /\ [](~halted)
    /\ [][(TickStep /\ ~TakesInterrupt(State)) => Executes(State) \in 0..15]_vars
    /\ Includes(interruptQueue, Interrupts.TIMER) ~> ServiceBegun
    /\ ServiceBegun ~> Returned

\* C19 witness: two TIMER requests have been serviced, the second one
\* requested while the first was in service, and the second routine has
\* returned to the main program.
C19_Witness ==
    /\ Returned
    /\ MemRead(memory, COUNTER_ADDRESS) = 2
    /\ interruptQueue = <<>>

\* The CPU after the service routine has run to the end of its IRET: ticks
\* from s up to and including the first one that executes IRET (at most
\* fuel ticks).
RECURSIVE RunToReturn(_, _)
RunToReturn(s, fuel) ==
    IF fuel = 0 THEN s
    ELSE IF Executes(s) = InstructionSet.IRET THEN tick(s)
    ELSE RunToReturn(tick(s), fuel - 1)

\* C20 as stated: with the sample image, for an interrupt serviced at any
\* tick boundary, when the routine's IRET has executed, PC, SP, A and B
\* are exactly equal to their values at the moment the service began.
C20_ServiceIsTransparent ==
    BeginsService(State) =>
        LET after == RunToReturn(tick(State), Len(isr))
        IN  /\ after.registers.IR = InstructionSet.IRET
            /\ after.registers.PC = registers.PC
            /\ after.registers.SP = registers.SP
            /\ after.registers.A = registers.A
            /\ after.registers.B = registers.B

\* The same with A compared modulo 256, as the stack keeps it.
C20_TransparentModulo256 ==
    BeginsService(State) =>
        LET after == RunToReturn(tick(State), Len(isr))
        IN  /\ after.registers.IR = InstructionSet.IRET
            /\ after.registers.PC = registers.PC
            /\ after.registers.SP = registers.SP
            /\ after.registers.A = ToUint8(registers.A)
            /\ after.registers.B = registers.B

====
